---- MODULE Spec2Model ----
(***************************************************************************)
(* A model of spreadsheet_calendar: the command line of main, the style    *)
(* registry, and the grid layout of Calendar.add_year (set_cell_sizes,     *)
(* set_months, set_days) over the two sheet backends.                      *)
(*                                                                         *)
(* Strings the program computes character by character (year labels,       *)
(* sheet names, year arguments) are sequences of one-character strings.    *)
(* A style is represented by its registered name; colours, fonts and       *)
(* border sides are attributes of the name and are not tracked per cell.   *)
(***************************************************************************)
EXTENDS Integers, Sequences, FiniteSets, TLC

VARIABLES
    argv,       \* the command line, as the options main's parser reads
    args,       \* the namespace parse_args returns
    pc,         \* position in main
    holidays,   \* the holiday table of the calendar document
    weekends,   \* Calendar.weekends
    styles,     \* names registered by add_style
    sheets,     \* the sheets of the document, in order
    first_sheet,\* NumbersCalendar.first_sheet
    yi,         \* index in args.year of the year add_year is working on
    month_dts,  \* per month row, the month_dt set_days built
    filename,   \* Calendar.filename
    files,      \* files written
    saves,      \* number of calls of save
    stdout,     \* lines printed
    exit        \* how the run ended

vars == <<argv, args, pc, holidays, weekends, styles, sheets, first_sheet, filename,
          yi, month_dts, files, saves, stdout, exit>>

None == "<None>"

(***************************************************************************)
(* Bounds and inputs                                                       *)
(***************************************************************************)
MaxYears == 2

\* the year arguments valid_year accepts, and those it rejects
GoodYearArgs ==
    { <<"0">>, <<"9","9","9">>, <<"2","0","2","3">>, <<"1","0","0","0","0">> }

BadYearArgs == { <<"-","1">>, <<"2","x">> }

\* the sequences over S of length 1..n
RECURSIVE SeqsUpTo(_, _)
SeqsUpTo(S, n) ==
    IF n = 1 THEN { <<x>> : x \in S }
    ELSE LET shorter == SeqsUpTo(S, n - 1)
         IN  shorter \cup { Append(s, x) : s \in { t \in shorter : Len(t) = n - 1 }, x \in S }

GoodStartMonthArgs ==
    { None, "Feb", "March", "Apr", "May", "Jun", "July", "Aug", "Sep", "Oct",
      "Nov", "December" }

NoWeekend == [given |-> FALSE, days |-> <<>>]

GoodWeekendArgs == { NoWeekend, [given |-> TRUE, days |-> <<"Fri">>] }

DefaultArgv ==
    [ flag |-> None, no_holiday_weekends |-> FALSE, format |-> None, start_month |-> None,
      weekend |-> NoWeekend, output |-> None, country |-> None, region |-> None,
      year |-> <<>> ]

\* command lines that ask for a calendar, every option well-formed
GenArgv ==
    [ flag : {None}, no_holiday_weekends : BOOLEAN, format : {None, "numbers"},
      start_month : GoodStartMonthArgs, weekend : GoodWeekendArgs, output : {None},
      country : {"US"}, region : {None},
      year : SeqsUpTo(GoodYearArgs, MaxYears) ]

\* command lines with one of the flags main dispatches on
FlagArgv ==
    { [DefaultArgv EXCEPT !.flag = f, !.country = c] :
        f \in {"--version", "--list-countries", "--list-regions"},
        c \in {None, "US", "United States", "ZZ"} }

\* command lines with one option changed from its default
OtherArgv ==
    { DefaultArgv,
      [DefaultArgv EXCEPT !.start_month = "Sept"],
      [DefaultArgv EXCEPT !.start_month = "Jan"],
      [DefaultArgv EXCEPT !.weekend = [given |-> TRUE, days |-> <<"Funday">>]],
      [DefaultArgv EXCEPT !.weekend = [given |-> TRUE, days |-> <<>>]],
      [DefaultArgv EXCEPT !.weekend = [given |-> TRUE, days |-> <<"Sunday", "Mon">>]],
      [DefaultArgv EXCEPT !.format = "excel"],
      [DefaultArgv EXCEPT !.format = "pdf"],
      [DefaultArgv EXCEPT !.output = "my.numbers", !.format = "numbers"],
      [DefaultArgv EXCEPT !.region = "CA"],
      [DefaultArgv EXCEPT !.region = "XX"],
      [DefaultArgv EXCEPT !.country = "United States", !.year = <<<<"2","0","2","3">>>>],
      [DefaultArgv EXCEPT !.country = "GB", !.region = "SCT"],
      [DefaultArgv EXCEPT !.country = "ZZ"],
      [DefaultArgv EXCEPT !.country = "ZZ", !.format = "numbers"] }
    \cup { [DefaultArgv EXCEPT !.year = <<y>>] : y \in BadYearArgs }
    \cup { [DefaultArgv EXCEPT !.year = <<y, z>>] : y \in GoodYearArgs, z \in BadYearArgs }

(***************************************************************************)
(* calendar and datetime                                                   *)
(***************************************************************************)
month_name ==
    [ m \in 0..12 |->
        <<"", "January", "February", "March", "April", "May", "June", "July",
          "August", "September", "October", "November", "December">>[m + 1] ]

month_abbr ==
    [ m \in 0..12 |->
        <<"", "Jan", "Feb", "Mar", "Apr", "May", "Jun", "Jul", "Aug", "Sep",
          "Oct", "Nov", "Dec">>[m + 1] ]

day_name ==
    [ d \in 0..6 |->
        <<"Monday", "Tuesday", "Wednesday", "Thursday", "Friday", "Saturday",
          "Sunday">>[d + 1] ]

day_abbr ==
    [ d \in 0..6 |-> <<"Mon", "Tue", "Wed", "Thu", "Fri", "Sat", "Sun">>[d + 1] ]

MINYEAR == 1
MAXYEAR == 9999

isleap(year) == year % 4 = 0 /\ (year % 100 # 0 \/ year % 400 = 0)

mdays == <<31, 28, 31, 30, 31, 30, 31, 31, 30, 31, 30, 31>>

\* calendar.monthrange(year, month)[1]; month 1..12
monthrange(year, month) ==
    mdays[month] + (IF month = 2 /\ isleap(year) THEN 1 ELSE 0)

\* date(year, month, day) raises ValueError outside MINYEAR..MAXYEAR
DateOk(year, month, day) ==
    /\ year >= MINYEAR /\ year <= MAXYEAR
    /\ month >= 1 /\ month <= 12
    /\ day >= 1 /\ day <= monthrange(year, month)

Date(year, month, day) == [year |-> year, month |-> month, day |-> day]

RECURSIVE DaysBeforeMonth(_, _)
DaysBeforeMonth(year, month) ==
    IF month = 1 THEN 0
    ELSE DaysBeforeMonth(year, month - 1) + monthrange(year, month - 1)

toordinal(dt) ==
    LET y == dt.year - 1
    IN  y * 365 + (y \div 4) - (y \div 100) + (y \div 400)
        + DaysBeforeMonth(dt.year, dt.month) + dt.day

\* date.isoweekday(): Monday = 1 .. Sunday = 7
isoweekday(dt) ==
    IF toordinal(dt) % 7 = 0 THEN 7 ELSE toordinal(dt) % 7

\* month_dt + relativedelta(days = n), for a day that stays in the month
\* (set_days adds col_num < num_days to the first of the month)
PlusDays(dt, n) == [dt EXCEPT !.day = @ + n]

(***************************************************************************)
(* str and int                                                             *)
(***************************************************************************)
Digit == <<"0", "1", "2", "3", "4", "5", "6", "7", "8", "9">>

DigitVal(c) == CHOOSE d \in 0..9 : Digit[d + 1] = c

IsDigit(c) == \E d \in 0..9 : Digit[d + 1] = c

RECURSIVE str(_)
str(n) ==
    IF n < 0 THEN <<"-">> \o str(0 - n)
    ELSE IF n < 10 THEN <<Digit[n + 1]>>
    ELSE Append(str(n \div 10), Digit[(n % 10) + 1])

RECURSIVE DigitsVal(_)
DigitsVal(s) ==
    IF s = <<>> THEN 0 ELSE DigitsVal(SubSeq(s, 1, Len(s) - 1)) * 10 + DigitVal(s[Len(s)])

\* int(s): [ok, val]; ok is FALSE where int raises ValueError
int(s) ==
    LET neg    == s # <<>> /\ s[1] = "-"
        digits == IF neg THEN Tail(s) ELSE s
    IN  IF digits # <<>> /\ \A i \in 1..Len(digits) : IsDigit(digits[i])
        THEN [ok |-> TRUE, val |-> IF neg THEN 0 - DigitsVal(digits) ELSE DigitsVal(digits)]
        ELSE [ok |-> FALSE, val |-> 0]

\* s[-n:]
LastN(s, n) == IF Len(s) <= n THEN s ELSE SubSeq(s, Len(s) - n + 1, Len(s))

(***************************************************************************)
(* Module-level tables and argparse type functions                         *)
(***************************************************************************)
DEFAULT_LOCALE == "US"
DEFAULT_WEEKENDS == <<6, 7>>
DEFAULT_YEAR == 2024

InMonthMap(month) ==
    \E mon \in 1..12 : month_name[mon] = month \/ month_abbr[mon] = month

MONTH_MAP(month) ==
    CHOOSE mon \in 1..12 : month_name[mon] = month \/ month_abbr[mon] = month

InWeekdayMap(weekday) ==
    \E day \in 0..6 : day_name[day] = weekday \/ day_abbr[day] = weekday

WEEKDAY_MAP(weekday) ==
    (CHOOSE day \in 0..6 : day_name[day] = weekday \/ day_abbr[day] = weekday) + 1

\* [ok, val]: ok is FALSE where the function raises ArgumentTypeError
valid_month(month) ==
    IF InMonthMap(month) THEN [ok |-> TRUE, val |-> MONTH_MAP(month)]
    ELSE [ok |-> FALSE, val |-> 0]

valid_weekday(weekday) ==
    IF InWeekdayMap(weekday) THEN [ok |-> TRUE, val |-> WEEKDAY_MAP(weekday)]
    ELSE [ok |-> FALSE, val |-> 0]

valid_year(year) ==
    IF int(year).ok /\ ~(int(year).val < 0) THEN [ok |-> TRUE, val |-> int(year).val]
    ELSE [ok |-> FALSE, val |-> 0]

(***************************************************************************)
(* The holiday source: the countries it supports, their names and          *)
(* subdivisions, and the table it returns.                                 *)
(***************************************************************************)
SupportedCountries == { "US", "GB" }

alpha2_to_country ==
    [ a \in SupportedCountries |-> IF a = "US" THEN "United States" ELSE "United Kingdom" ]

InCountryToAlpha2(name) == \E a \in SupportedCountries : alpha2_to_country[a] = name

country_to_alpha2(name) == CHOOSE a \in SupportedCountries : alpha2_to_country[a] = name

alpha2_regions ==
    [ a \in SupportedCountries |-> IF a = "US" THEN <<"CA", "NY">> ELSE <<"ENG", "SCT">> ]

InSeq(x, s) == \E i \in 1..Len(s) : s[i] = x

\* country_holidays(country, subdiv): ok is FALSE where it raises NotImplementedError
country_holidays(country, subdiv) ==
    IF country \in SupportedCountries
       /\ (subdiv = None \/ InSeq(subdiv, alpha2_regions[country]))
    THEN [ok |-> TRUE, table |-> [country |-> country, subdiv |-> subdiv]]
    ELSE [ok |-> FALSE, table |-> None]

\* holidays.get(dt) is not None
IsHoliday(table, dt) ==
    \/ dt.month = 1 /\ dt.day = 1
    \/ dt.month = 12 /\ dt.day = 25
    \/ table.country = "US" /\ dt.month = 7 /\ dt.day = 4
    \/ table.country = "US" /\ dt.month = 1 /\ dt.day \in 15..21 /\ isoweekday(dt) = 1
    \/ table.country = "GB" /\ dt.month = 12 /\ dt.day = 26

(***************************************************************************)
(* Sheets and the backend operations                                       *)
(***************************************************************************)
NUM_ROWS == 13
NUM_COLS == 34

EmptyCell == [style |-> None, n |-> 0, value |-> None, w |-> 0]

\* cells[row][col]: the style name last applied, how many times a style was
\* applied, the value last written and how many times one was written
NewSheet(name) ==
    [ name    |-> name,
      cells   |-> [ r \in 0..(NUM_ROWS - 1) |-> [ c \in 0..(NUM_COLS - 1) |-> EmptyCell ] ],
      merges  |-> <<>>,
      heights |-> {},
      widths  |-> {} ]

StyleNames ==
    <<"Weekend", "Month Day", "Holiday", "Year", "Month", "Day Number", "Empty", "Empty Day">>

\* set_cell_style and write, as they change the cell at (row_num, col_num)
set_cell_style(cell, style) == [cell EXCEPT !.style = style, !.n = @ + 1]

write(cell, value, style) ==
    [cell EXCEPT !.style = style, !.n = @ + 1, !.value = value, !.w = @ + 1]

\* one call of a backend operation, as the layout code issues it
OpStyle(r, c, style)    == [op |-> "set_cell_style", row |-> r, col |-> c, style |-> style]
OpWrite(r, c, v, style) == [op |-> "write", row |-> r, col |-> c, value |-> v, style |-> style]
OpMerge(r1, c1, r2, c2) == [op |-> "merge_cells", row |-> r1, col |-> c1, row_end |-> r2, col_end |-> c2]

IsCellOp(o) == o.op \in {"set_cell_style", "write"}

\* the calls os, all on one cell, made in order from the i-th on
RECURSIVE ApplyCell(_, _, _)
ApplyCell(cell, os, i) ==
    IF i > Len(os) THEN cell
    ELSE ApplyCell(IF os[i].op = "write" THEN write(cell, os[i].value, os[i].style)
                   ELSE set_cell_style(cell, os[i].style),
                   os, i + 1)

\* the sheet after the calls ops, made in order: every cell takes the calls
\* addressed to it, the merges are recorded as issued
ApplyAll(sheet, ops) ==
    LET merges == SelectSeq(ops, LAMBDA o : o.op = "merge_cells")
    IN  [sheet EXCEPT
            !.cells = [ r \in DOMAIN @ |->
                LET row_ops == SelectSeq(ops, LAMBDA o : IsCellOp(o) /\ o.row = r)
                IN  IF row_ops = <<>> THEN @[r]
                    ELSE [ c \in DOMAIN @[r] |->
                            ApplyCell(@[r][c], SelectSeq(row_ops, LAMBDA o : o.col = c), 1) ] ],
            !.merges = @ \o [ i \in 1..Len(merges) |->
                                <<merges[i].row, merges[i].col, merges[i].row_end, merges[i].col_end>> ]]

(***************************************************************************)
(* Calendar: the layout                                                    *)
(***************************************************************************)
sheet_name(start_month, year) ==
    IF start_month > 0
    THEN LET year_1 == str(year)
             year_2 == IF Len(year_1) >= 4 THEN LastN(str(year + 1), 2) ELSE str(year + 1)
         IN  year_1 \o <<"-">> \o year_2
    ELSE str(year)

set_cell_sizes(sheet) ==
    [sheet EXCEPT
        !.heights = @ \cup { <<row_num, 30>> : row_num \in 0..13 },
        !.widths  = @ \cup { <<0, 40>>, <<1, 60>>, <<2, 20>> }
                      \cup { <<col_num, 30>> : col_num \in 3..33 }]

YearLabelOpsLabelAtSpanEnd(start_month, year) ==
    IF start_month > 1
    THEN LET offset == 13 - start_month
         IN  << OpMerge(1, 0, offset, 0),
                OpWrite(1, 0, str(year), "Year"),
                OpMerge(offset + 1, 0, 12, 0),
                OpWrite(offset, 0, str(year + 1), "Year") >>
    ELSE << OpMerge(1, 0, 12, 0), OpWrite(1, 0, str(year), "Year") >>

\* the merges and labels of column 0
YearLabelOps(start_month, year) ==
    IF start_month > 1
    THEN LET offset == 13 - start_month
         IN  << OpMerge(1, 0, offset, 0),
                OpWrite(1, 0, str(year), "Year"),
                OpMerge(offset + 1, 0, 12, 0),
                OpWrite(offset + 1, 0, str(year + 1), "Year") >>
    ELSE << OpMerge(1, 0, 12, 0), OpWrite(1, 0, str(year), "Year") >>

MonthNameIndexAlwaysModulo(start_month, month_num) == (start_month + month_num) % 12

\* the index into calendar.month_name for month row month_num (0-based)
MonthNameIndex(start_month, month_num) ==
    IF start_month + month_num > 12
    THEN (start_month + month_num) % 12
    ELSE start_month + month_num

set_months_ops(start_month, year) ==
       [ i \in 1..3  |-> OpStyle(0, i - 1, "Empty") ]
    \o [ i \in 1..12 |-> OpStyle(i, 2, "Empty") ]
    \o [ i \in 1..24 |-> OpStyle(((i - 1) \div 2) + 1, (i - 1) % 2, "Month") ]
    \o YearLabelOps(start_month, year)
    \o [ i \in 1..12 |-> OpWrite(i, 1, month_name[MonthNameIndex(start_month, i - 1)], "Month") ]
    \o [ i \in 1..31 |-> OpWrite(0, i + 2, str(i), "Day Number") ]

set_months(sheet, start_month, year) ==
    ApplyAll(sheet, set_months_ops(start_month, year))

\* the month set_days uses for month row row_num
DaysMonth(start_month, row_num) ==
    IF start_month + row_num > 12
    THEN (start_month + row_num) % 12
    ELSE start_month + row_num

\* the year set_days builds the dates of month row row_num in
DaysYear(start_month, year, row_num) == year

DayCellShifted(row_num, col_num) == <<row_num + 1, col_num + 2>>

\* row_col: the cell of day column col_num of month row row_num
DayCell(row_num, col_num) == <<row_num + 1, col_num + 3>>

DayStyleWeekendFirst(is_holiday, is_weekend, no_holiday_weekends) ==
    IF is_weekend THEN "Weekend"
    ELSE IF is_holiday THEN "Holiday"
    ELSE "Month Day"

DayStyle(is_holiday, is_weekend, no_holiday_weekends) ==
    IF is_holiday /\ is_weekend /\ no_holiday_weekends THEN "Weekend"
    ELSE IF is_holiday THEN "Holiday"
    ELSE IF is_weekend THEN "Weekend"
    ELSE "Month Day"

\* the style call of set_days for month row row_num and day column col_num;
\* self: [start_month, weekends, no_holiday_weekends, holidays]
set_days_op(self, year, row_num, col_num) ==
    LET y        == DaysYear(self.start_month, year, row_num)
        m        == DaysMonth(self.start_month, row_num)
        month_dt == Date(y, m, 1)
        num_days == monthrange(y, m)
        row_col  == DayCell(row_num, col_num)
    IN  IF col_num >= num_days
        THEN OpStyle(row_col[1], row_col[2], "Empty Day")
        ELSE LET day_dt     == PlusDays(month_dt, col_num)
                 is_weekend == InSeq(isoweekday(day_dt), self.weekends)
                 is_holiday == IsHoliday(self.holidays, day_dt)
             IN  OpStyle(row_col[1], row_col[2],
                         DayStyle(is_holiday, is_weekend, self.no_holiday_weekends))

\* date(year, month, 1) of month row row_num raises ValueError
RowRaises(self, year, row_num) ==
    ~DateOk(DaysYear(self.start_month, year, row_num), DaysMonth(self.start_month, row_num), 1)

\* the number of month rows set_days completes: 12, or the first row that raises
RowsDone(self, year) ==
    IF \E row_num \in 0..11 : RowRaises(self, year, row_num)
    THEN CHOOSE row_num \in 0..11 :
            /\ RowRaises(self, year, row_num)
            /\ \A r \in 0..(row_num - 1) : ~RowRaises(self, year, r)
    ELSE 12

\* the calls of set_days in order: month rows 0.., day columns 0..30 of each
set_days_ops(self, year) ==
    [ i \in 1..(31 * RowsDone(self, year)) |->
        set_days_op(self, year, (i - 1) \div 31, (i - 1) % 31) ]

\* [sheet, dts, raised]: the sheet after the calls, the month_dt of each row
\* done, and whether a ValueError ended the loop
set_days(self, sheet, year) ==
    [ sheet  |-> ApplyAll(sheet, set_days_ops(self, year)),
      dts    |-> [ i \in 1..RowsDone(self, year) |->
                     Date(DaysYear(self.start_month, year, i - 1),
                          DaysMonth(self.start_month, i - 1), 1) ],
      raised |-> RowsDone(self, year) < 12 ]

(***************************************************************************)
(* main                                                                    *)
(***************************************************************************)
Running       == [how |-> "running", code |-> 0]
Returned      == [how |-> "returned", code |-> 0]
Exit(code)    == [how |-> "exit", code |-> code]
UsageError    == [how |-> "usage_error", code |-> 2]
Unhandled(e)  == [how |-> e, code |-> 1]

NoTable == [country |-> None, subdiv |-> None]

Map(f(_), s) == [ i \in 1..Len(s) |-> f(s[i]) ]

AllOk(f(_), s) == \A i \in 1..Len(s) : f(s[i]).ok

\* args.weekend: action "extend" extends a copy of the default
ParseWeekend(weekend) ==
    IF weekend.given
    THEN DEFAULT_WEEKENDS \o [ i \in 1..Len(weekend.days) |-> valid_weekday(weekend.days[i]).val ]
    ELSE DEFAULT_WEEKENDS

ParseYear(year) ==
    IF year = <<>> THEN <<DEFAULT_YEAR>>
    ELSE [ i \in 1..Len(year) |-> valid_year(year[i]).val ]

\* parse_args accepts the command line
ArgvOk(a) ==
    /\ a.format \in {None, "numbers", "excel"}
    /\ a.start_month = None \/ valid_month(a.start_month).ok
    /\ AllOk(valid_weekday, a.weekend.days)
    /\ AllOk(valid_year, a.year)

parse_args(a) ==
    [ version             |-> a.flag = "--version",
      list_countries      |-> a.flag = "--list-countries",
      list_regions        |-> a.flag = "--list-regions",
      no_holiday_weekends |-> a.no_holiday_weekends,
      format              |-> IF a.format = None THEN "excel" ELSE a.format,
      start_month         |-> IF a.start_month = None THEN valid_month("Jan").val
                              ELSE valid_month(a.start_month).val,
      weekend             |-> ParseWeekend(a.weekend),
      output              |-> a.output,
      country             |-> IF a.country = None THEN DEFAULT_LOCALE ELSE a.country,
      region              |-> a.region,
      year                |-> ParseYear(a.year) ]

Init ==
    /\ argv \in GenArgv \cup FlagArgv \cup OtherArgv
    /\ args = None
    /\ pc = "parse_args"
    /\ holidays = NoTable
    /\ weekends = <<>>
    /\ styles = {}
    /\ sheets = <<>>
    /\ first_sheet = FALSE
    /\ filename = None
    /\ yi = 0
    /\ month_dts = <<>>
    /\ files = {}
    /\ saves = 0
    /\ stdout = <<>>
    /\ exit = Running

\* main, lines 416-417
ParseArgs ==
    /\ pc = "parse_args"
    /\ IF ArgvOk(argv)
       THEN /\ args' = parse_args(argv)
            /\ pc' = "main"
            /\ exit' = exit
       ELSE /\ args' = args
            /\ pc' = "done"
            /\ exit' = UsageError
    /\ UNCHANGED saves
    /\ UNCHANGED <<argv, holidays, weekends, styles, sheets, first_sheet, filename, yi,
                   month_dts, files, stdout>>

\* main, lines 419-420
Version ==
    /\ pc = "main"
    /\ args.version
    /\ stdout' = Append(stdout, "__version__")
    /\ pc' = "done"
    /\ exit' = Returned
    /\ UNCHANGED saves
    /\ UNCHANGED <<argv, args, holidays, weekends, styles, sheets, first_sheet, filename, yi,
                   month_dts, files>>

\* main, lines 421-424
ListCountries ==
    /\ pc = "main"
    /\ ~args.version /\ args.list_countries
    /\ stdout' = stdout \o <<"US: United States", "GB: United Kingdom">>
    /\ pc' = "done"
    /\ exit' = Exit(0)
    /\ UNCHANGED saves
    /\ UNCHANGED <<argv, args, holidays, weekends, styles, sheets, first_sheet, filename, yi,
                   month_dts, files>>

\* main, lines 425-436
ListRegions ==
    /\ pc = "main"
    /\ ~args.version /\ ~args.list_countries /\ args.list_regions
    /\ IF args.country = None
       THEN stdout' = stdout /\ exit' = UsageError
       ELSE IF InCountryToAlpha2(args.country)
       THEN stdout' = stdout /\ exit' = Returned
       ELSE IF args.country \notin DOMAIN alpha2_to_country
       THEN stdout' = stdout /\ exit' = UsageError
       ELSE stdout' = stdout \o alpha2_regions[args.country] /\ exit' = Exit(0)
    /\ pc' = "done"
    /\ UNCHANGED saves
    /\ UNCHANGED <<argv, args, holidays, weekends, styles, sheets, first_sheet, filename, yi,
                   month_dts, files>>

\* main, lines 438-456, with the __post_init__ of the class chosen
Construct ==
    /\ pc = "main"
    /\ ~args.version /\ ~args.list_countries /\ ~args.list_regions
    /\ LET country == IF InCountryToAlpha2(args.country)
                      THEN country_to_alpha2(args.country) ELSE args.country
           name    == IF args.output = None
                      THEN (IF args.format = "numbers" THEN "calendar.numbers" ELSE "calendar.xlsx")
                      ELSE args.output
           h       == country_holidays(country, args.region)
       IN  IF h.ok
           THEN /\ holidays' = h.table
                /\ weekends' = args.weekend
                /\ filename' = name
                /\ styles' = { StyleNames[i] : i \in 1..Len(StyleNames) }
                /\ sheets' = IF args.format = "numbers" THEN <<NewSheet("Sheet 1")>> ELSE <<>>
                /\ first_sheet' = (args.format = "numbers")
                /\ yi' = 1
                /\ pc' = IF Len(args.year) >= 1 THEN "add_sheet" ELSE "save"
                /\ exit' = exit
           ELSE /\ pc' = "done"
                /\ exit' = Unhandled("NotImplementedError")
                /\ UNCHANGED <<holidays, weekends, filename, styles, sheets, first_sheet, yi>>
    /\ UNCHANGED saves
    /\ UNCHANGED <<argv, args, month_dts, files, stdout>>

Self == [ start_month |-> args.start_month, weekends |-> weekends,
          no_holiday_weekends |-> args.no_holiday_weekends, holidays |-> holidays ]

\* the sheet add_sheet returned to add_year
Current == Len(sheets)

\* add_year, line 220
AddSheet ==
    /\ pc = "add_sheet"
    /\ LET name == sheet_name(args.start_month, args.year[yi])
       IN  IF args.format = "numbers" /\ first_sheet
           THEN sheets' = [sheets EXCEPT ![1].name = name]
           ELSE sheets' = Append(sheets, NewSheet(name))
    /\ first_sheet' = FALSE
    /\ pc' = "set_cell_sizes"
    /\ UNCHANGED saves
    /\ UNCHANGED <<argv, args, holidays, weekends, styles, filename, yi, month_dts, files,
                   stdout, exit>>

\* add_year, line 221
SetCellSizes ==
    /\ pc = "set_cell_sizes"
    /\ sheets' = [sheets EXCEPT ![Current] = set_cell_sizes(@)]
    /\ pc' = "set_months"
    /\ UNCHANGED saves
    /\ UNCHANGED <<argv, args, holidays, weekends, styles, first_sheet, filename, yi,
                   month_dts, files, stdout, exit>>

\* add_year, line 222
SetMonths ==
    /\ pc = "set_months"
    /\ sheets' = [sheets EXCEPT ![Current] = set_months(@, args.start_month, args.year[yi])]
    /\ pc' = "set_days"
    /\ UNCHANGED saves
    /\ UNCHANGED <<argv, args, holidays, weekends, styles, first_sheet, filename, yi,
                   month_dts, files, stdout, exit>>

AfterYearSaveAtOnce(i, years) == "save"

\* where main goes when add_year returns for years[i]: the next year of the
\* loop, or save after the last
AfterYear(i, years) == IF i < Len(years) THEN "add_sheet" ELSE "save"

\* add_year, line 223, and the loop of main, lines 457-458
SetDays ==
    /\ pc = "set_days"
    /\ LET r == set_days(Self, sheets[Current], args.year[yi])
       IN  /\ sheets' = [sheets EXCEPT ![Current] = r.sheet]
           /\ month_dts' = r.dts
           /\ IF r.raised
              THEN /\ pc' = "done"
                   /\ exit' = Unhandled("ValueError")
                   /\ yi' = yi
              ELSE /\ pc' = AfterYear(yi, args.year)
                   /\ exit' = exit
                   /\ yi' = yi + 1
    /\ UNCHANGED saves
    /\ UNCHANGED <<argv, args, holidays, weekends, styles, first_sheet, filename, files, stdout>>

\* main, line 459
Save ==
    /\ pc = "save"
    /\ files' = files \cup {filename}
    /\ saves' = saves + 1
    /\ pc' = "done"
    /\ exit' = Returned
    /\ UNCHANGED <<argv, args, holidays, weekends, styles, sheets, first_sheet, filename, yi,
                   month_dts, stdout>>

Next ==
    \/ ParseArgs
    \/ Version
    \/ ListCountries
    \/ ListRegions
    \/ Construct
    \/ AddSheet
    \/ SetCellSizes
    \/ SetMonths
    \/ SetDays
    \/ Save

Spec == Init /\ [][Next]_vars

(***************************************************************************)
(* Properties                                                              *)
(***************************************************************************)
Range(s) == { s[i] : i \in 1..Len(s) }

Generating == pc \in {"add_sheet", "set_cell_sizes", "set_months", "set_days", "save"}

\* add_year has completed for args.year[k], on sheets[k]
YearDone(k) ==
    /\ pc \in {"add_sheet", "set_cell_sizes", "set_months", "set_days", "save", "done"}
    /\ k \in 1..(yi - 1)

\* set_days has just returned for args.year[yi - 1]: month_dts is its record
JustDone == pc \in {"add_sheet", "save"} /\ yi >= 2

\* set_months has been applied to sheets[k]
MonthsDone(k) ==
    \/ YearDone(k)
    \/ k = yi /\ pc = "set_days"
    \/ k = yi /\ pc = "done" /\ exit.how = "ValueError"

\* the month and the civil year of month row row (0-based) of a sheet
EffectiveMonth(start_month, row) == ((start_month - 1 + row) % 12) + 1

EffectiveYear(start_month, year, row) == IF start_month + row > 12 THEN year + 1 ELSE year

\* C1: the dates set_days builds for a wrapped month row (start_month + row
\* > 12) are dates of year + 1, and those of the other rows dates of year.
C1_WrappedRowsUseNextYear ==
    JustDone =>
        \A row \in 0..11 :
            month_dts[row + 1].year = EffectiveYear(args.start_month, args.year[yi - 1], row)

\* C2: a day cell within the month is "Weekend" exactly when its date is a
\* weekend day and either no holiday or no_holiday_weekends is set, "Holiday"
\* exactly when it is a holiday and not a weekend day collapsed by the flag,
\* and "Month Day" exactly when it is neither; the date is the one set_days
\* built for the cell.
C2_StylePrecedence ==
    JustDone =>
        \A row \in 0..11 : \A col \in 0..30 :
            LET month_dt == month_dts[row + 1]
                style    == sheets[yi - 1].cells[row + 1][col + 3].style
            IN  col < monthrange(month_dt.year, month_dt.month) =>
                    LET day_dt == Date(month_dt.year, month_dt.month, col + 1)
                        hol    == IsHoliday(holidays, day_dt)
                        wk     == isoweekday(day_dt) \in Range(weekends)
                        flag   == args.no_holiday_weekends
                    IN  /\ (style = "Weekend") <=> (wk /\ (~hol \/ flag))
                        /\ (style = "Holiday") <=> (hol /\ ~(wk /\ flag))
                        /\ (style = "Month Day") <=> (~hol /\ ~wk)

\* a holiday on a weekend day, collapsed to "Weekend" by the flag
C2_Witness ==
    /\ JustDone
    /\ args.no_holiday_weekends
    /\ \E row \in 0..11 : \E col \in 0..27 :
        LET day_dt == Date(month_dts[row + 1].year, month_dts[row + 1].month, col + 1)
        IN  /\ IsHoliday(holidays, day_dt)
            /\ isoweekday(day_dt) \in Range(weekends)
            /\ sheets[yi - 1].cells[row + 1][col + 3].style = "Weekend"

\* C3: a day cell is "Empty Day" exactly when its day column is at or past
\* the number of days of the row's month in the row's civil year (year + 1
\* for wrapped rows).
C3_EmptyDayIffPastMonthEnd ==
    \A k \in 1..Len(sheets) :
        YearDone(k) =>
            \A row \in 0..11 : \A col \in 0..30 :
                (sheets[k].cells[row + 1][col + 3].style = "Empty Day")
                    <=> (col >= monthrange(EffectiveYear(args.start_month, args.year[k], row),
                                           EffectiveMonth(args.start_month, row)))

\* C4: the sheet is named by the plain year when start_month = 1, and by
\* "{year}-{yy}" when start_month > 1.
C4_SheetName ==
    pc = "set_cell_sizes" =>
        LET year   == args.year[yi]
            year_2 == IF Len(str(year)) >= 4 THEN LastN(str(year + 1), 2) ELSE str(year + 1)
        IN  sheets[Len(sheets)].name =
                IF args.start_month = 1 THEN str(year) ELSE str(year) \o <<"-">> \o year_2

\* the rows of column 0 a merge covers
SpanRows(m) == IF m[2] = 0 /\ m[4] = 0 THEN m[1]..m[3] ELSE {}

\* C5: the merges of column 0 partition rows 1..12: one span 1..12 labelled
\* year when start_month = 1, else spans 1..(13 - start_month) labelled year
\* and (14 - start_month)..12 labelled year + 1, each label in the first row
\* of its span and in no other row.
C5_YearSpansPartition ==
    \A k \in 1..Len(sheets) :
        MonthsDone(k) =>
            LET t     == sheets[k]
                M     == args.start_month
                year  == args.year[k]
                label == [ r \in 1..12 |-> t.cells[r][0].value ]
                blank == [ r \in 1..12 |-> t.cells[r][0].w = 0 ]
            IN  /\ \A r \in 1..12 :
                       Cardinality({ i \in 1..Len(t.merges) : r \in SpanRows(t.merges[i]) }) = 1
                /\ \A i \in 1..Len(t.merges) :
                       SpanRows(t.merges[i]) # {} /\ SpanRows(t.merges[i]) \subseteq 1..12
                /\ IF M = 1
                   THEN /\ t.merges = << <<1, 0, 12, 0>> >>
                        /\ ~blank[1] /\ label[1] = str(year)
                        /\ \A r \in 2..12 : blank[r]
                   ELSE /\ t.merges = << <<1, 0, 13 - M, 0>>, <<14 - M, 0, 12, 0>> >>
                        /\ ~blank[1] /\ label[1] = str(year)
                        /\ ~blank[14 - M] /\ label[14 - M] = str(year + 1)
                        /\ \A r \in (2..12) \ {14 - M} : blank[r]

\* a July start: rows 1..6 labelled year, rows 7..12 labelled year + 1
C5_Witness ==
    /\ pc = "set_days"
    /\ args.start_month = 7
    /\ sheets[yi].merges = << <<1, 0, 6, 0>>, <<7, 0, 12, 0>> >>
    /\ sheets[yi].cells[7][0].value = <<"2", "0", "2", "4">>

\* C6: column 1 of rows 1..12 holds 12 distinct month names in cyclic order
\* from start_month, none of them the empty entry of the month-name table.
C6_MonthNamesCyclic ==
    \A k \in 1..Len(sheets) :
        MonthsDone(k) =>
            LET name == [ i \in 0..11 |-> sheets[k].cells[i + 1][1].value ]
            IN  /\ \A i \in 0..11 : sheets[k].cells[i + 1][1].w = 1
                /\ \A i \in 0..11 : name[i] = month_name[((args.start_month - 1 + i) % 12) + 1]
                /\ \A i \in 0..11 : name[i] # ""
                /\ Cardinality({ name[i] : i \in 0..11 }) = 12

\* a November start: the third month row is January
C6_Witness ==
    /\ pc = "set_days"
    /\ args.start_month = 11
    /\ sheets[yi].cells[1][1].value = "November"
    /\ sheets[yi].cells[2][1].value = "December"
    /\ sheets[yi].cells[3][1].value = "January"

\* C7: after add_year, every cell of rows 1..12 and columns 3..33 has been
\* given a style exactly once, one of the four day styles.
C7_DayCellsStyledOnce ==
    \A k \in 1..Len(sheets) :
        YearDone(k) =>
            \A r \in 1..12 : \A c \in 3..33 :
                /\ sheets[k].cells[r][c].n = 1
                /\ sheets[k].cells[r][c].style \in {"Month Day", "Weekend", "Holiday", "Empty Day"}

\* two years done on the Numbers backend, all four day styles in use
C7_Witness ==
    /\ pc = "save"
    /\ args.format = "numbers"
    /\ yi = 3
    /\ \A st \in {"Month Day", "Weekend", "Holiday", "Empty Day"} :
           \E r \in 1..12 : \E c \in 3..33 : sheets[2].cells[r][c].style = st

\* the country and region main passes to the holiday source are supported
JurisdictionOk(a) ==
    country_holidays(IF InCountryToAlpha2(a.country) THEN country_to_alpha2(a.country)
                     ELSE a.country, a.region).ok

\* C8: a generation run for an unsupported country or region ends as a
\* usage error with a non-zero exit code, with no sheet added and no file
\* saved.
C8_UnsupportedIsUsageError ==
    (/\ pc = "done"
     /\ ArgvOk(argv)
     /\ argv.flag = None
     /\ ~JurisdictionOk(parse_args(argv)))
        => /\ exit.how = "usage_error"
           /\ exit.code # 0
           /\ sheets = <<>>
           /\ files = {}

\* C9: add_year raises for no year valid_year accepts.
C9_AddYearTotal ==
    (ArgvOk(argv) /\ pc = "done") => exit.how # "ValueError"

\* C10: the weekend set of the calendar is {6, 7} without --weekend and the
\* set of the days named with it.
C10_WeekendSet ==
    Generating =>
        Range(weekends) =
            IF argv.weekend.given
            THEN { valid_weekday(argv.weekend.days[i]).val : i \in 1..Len(argv.weekend.days) }
            ELSE {6, 7}

\* the run asked for a calendar and main has built the document
InGeneration ==
    /\ ArgvOk(argv)
    /\ argv.flag = None
    /\ pc \in {"add_sheet", "set_cell_sizes", "set_months", "set_days", "save", "done"}
    /\ yi >= 1

\* the number of years add_sheet has been called for
SheetsAdded ==
    IF pc \in {"set_cell_sizes", "set_months", "set_days"} THEN yi
    ELSE IF pc = "done" /\ exit.how = "ValueError" THEN yi
    ELSE yi - 1

C11_State ==
    InGeneration =>
        /\ Len(sheets) = IF args.format = "numbers" /\ SheetsAdded = 0 THEN 1 ELSE SheetsAdded
        /\ \A k \in 1..SheetsAdded :
               sheets[k].name = sheet_name(args.start_month, args.year[k])
        /\ saves <= 1
        /\ saves = 1 =>
               /\ pc = "done"
               /\ yi = Len(args.year) + 1
               /\ Len(sheets) = Len(args.year)
               /\ \A k \in 1..Len(args.year) : sheets[k].cells[12][33].n = 1
        /\ (pc = "done" /\ exit = Returned) => saves = 1

C12_ListRegions ==
    (pc = "done" /\ ArgvOk(argv) /\ argv.flag = "--list-regions") =>
        LET country == parse_args(argv).country
        IN  IF country \in SupportedCountries \/ InCountryToAlpha2(country)
            THEN LET alpha2 == IF InCountryToAlpha2(country) THEN country_to_alpha2(country)
                               ELSE country
                 IN  /\ stdout = alpha2_regions[alpha2]
                     /\ exit.code = 0
                     /\ sheets = <<>>
                     /\ saves = 0
            ELSE exit.how = "usage_error" /\ stdout = <<>>

\* C14: on the Numbers backend every row and column index add_year passes to
\* a backend operation lies inside the table the document was created with.
C14_IndicesInTable ==
    (InGeneration /\ args.format = "numbers") =>
        \A k \in 1..Len(sheets) :
            /\ \A h \in sheets[k].heights : h[1] >= 0 /\ h[1] < NUM_ROWS
            /\ \A w \in sheets[k].widths : w[1] >= 0 /\ w[1] < NUM_COLS
            /\ \A i \in 1..Len(sheets[k].merges) :
                   LET m == sheets[k].merges[i]
                   IN  /\ m[1] >= 0 /\ m[1] <= m[3] /\ m[3] < NUM_ROWS
                       /\ m[2] >= 0 /\ m[2] <= m[4] /\ m[4] < NUM_COLS

(***************************************************************************)
(* numbers_calendar: the layout of one table up to the month names         *)
(***************************************************************************)
NCYears == { 999, 2023, 9999 }

\* f"A{n}"
ARef(n) == <<"A">> \o str(n)

\* f"{a}:{b}"
RangeRef(a, b) == a \o <<":">> \o b

\* the (row, col) a cell reference names: column letter A.., row number 1..
ColumnLetters == <<"A", "B", "C", "D", "E", "F", "G", "H">>

RefRowCol(ref) ==
    << DigitsVal(Tail(ref)) - 1,
       (CHOOSE c \in 1..Len(ColumnLetters) : ColumnLetters[c] = ref[1]) - 1 >>

\* the two cell references of a range reference
RefFirst(range) == SubSeq(range, 1, (CHOOSE i \in 1..Len(range) : range[i] = ":") - 1)

RefSecond(range) == SubSeq(range, (CHOOSE i \in 1..Len(range) : range[i] = ":") + 1, Len(range))

\* table.merge_cells(range) and table.write(ref, value, style=style)
NCMerge(range) ==
    OpMerge(RefRowCol(RefFirst(range))[1], RefRowCol(RefFirst(range))[2],
            RefRowCol(RefSecond(range))[1], RefRowCol(RefSecond(range))[2])

NCWrite(ref, value, style) == OpWrite(RefRowCol(ref)[1], RefRowCol(ref)[2], value, style)

\* table.set_cell_border on all four sides of each cell of cs
SetBorders(borders, cs, kind) ==
    { b \in borders : <<b[1], b[2]>> \notin cs } \cup { <<c[1], c[2], kind>> : c \in cs }

NewTable ==
    [ cells   |-> [ r \in 0..(NUM_ROWS - 1) |-> [ c \in 0..(NUM_COLS - 1) |-> EmptyCell ] ],
      merges  |-> <<>>,
      heights |-> {},
      widths  |-> {},
      borders |-> {},
      num_header_rows |-> 1,
      num_header_cols |-> 1 ]

set_calendar_cell_sizes(table) ==
    [table EXCEPT
        !.heights = @ \cup { <<row_num, 30>> : row_num \in 0..13 },
        !.widths  = @ \cup { <<0, 40>>, <<1, 60>>, <<2, 20>> }
                      \cup { <<col_num, 30>> : col_num \in 3..33 }]

\* the merges and labels of column A
set_month_borders_ops(year, start_month) ==
    IF start_month > 1
    THEN LET year_1_length    == 13 - start_month
             year_1_end_ref   == ARef(year_1_length + 1)
             year_2_start_ref == ARef(year_1_length + 2)
         IN  << NCMerge(RangeRef(ARef(2), year_1_end_ref)),
                NCWrite(ARef(2), str(year), "Year"),
                NCMerge(RangeRef(year_2_start_ref, ARef(13))),
                NCWrite(year_1_end_ref, str(year + 1), "Year") >>
    ELSE << NCMerge(RangeRef(ARef(2), ARef(13))), NCWrite(ARef(2), str(year), "Year") >>

set_month_borders(table, year, start_month) ==
    LET cleared == SetBorders(table.borders,
                              { <<0, 0>>, <<0, 1>> } \cup { <<row_num, 2>> : row_num \in 0..13 },
                              "none")
        solid   == IF start_month > 1
                   THEN { RefRowCol(ARef(2)), RefRowCol(ARef((13 - start_month) + 2)) }
                   ELSE { RefRowCol(ARef(2)) }
        written == ApplyAll(table, set_month_borders_ops(year, start_month))
    IN  [written EXCEPT
            !.borders = SetBorders(cleared, solid, "solid"),
            !.num_header_rows = 0,
            !.num_header_cols = 0]

set_month_names_ops(start_month) ==
       [ i \in 1..12 |->
            OpWrite(i, 1,
                    month_name[IF start_month + (i - 1) > 12
                               THEN (start_month + (i - 1)) % 12
                               ELSE start_month + (i - 1)],
                    "Month") ]
    \o [ i \in 1..31 |-> OpWrite(0, i + 2, str(i), "Day Number") ]

set_month_names(table, start_month) ==
    LET written == ApplyAll(table, set_month_names_ops(start_month))
    IN  [written EXCEPT
            !.borders = SetBorders(@, { <<month_num + 1, 1>> : month_num \in 0..11 }
                                      \cup { <<0, offset + 3>> : offset \in 0..30 },
                                   "solid")]

InitNC ==
    /\ argv = DefaultArgv
    /\ args \in [ start_month : 1..12, year : NCYears ]
    /\ pc = "set_calendar_cell_sizes"
    /\ holidays = NoTable
    /\ weekends = <<>>
    /\ styles = {"Weekend", "Holiday", "Year", "Month", "Day Number"}
    /\ sheets = << NewTable >>
    /\ first_sheet = FALSE
    /\ filename = None
    /\ yi = 0
    /\ month_dts = <<>>
    /\ files = {}
    /\ saves = 0
    /\ stdout = <<>>
    /\ exit = Running

\* create_calendar, line 233
NCSetCalendarCellSizes ==
    /\ pc = "set_calendar_cell_sizes"
    /\ sheets' = << set_calendar_cell_sizes(sheets[1]) >>
    /\ pc' = "set_month_borders"
    /\ UNCHANGED <<argv, args, holidays, weekends, styles, first_sheet, filename, yi,
                   month_dts, files, saves, stdout, exit>>

\* create_calendar, line 234
NCSetMonthBorders ==
    /\ pc = "set_month_borders"
    /\ sheets' = << set_month_borders(sheets[1], args.year, args.start_month) >>
    /\ pc' = "set_month_names"
    /\ UNCHANGED <<argv, args, holidays, weekends, styles, first_sheet, filename, yi,
                   month_dts, files, saves, stdout, exit>>

\* create_calendar, line 235
NCSetMonthNames ==
    /\ pc = "set_month_names"
    /\ sheets' = << set_month_names(sheets[1], args.start_month) >>
    /\ pc' = "set_day_borders"
    /\ UNCHANGED <<argv, args, holidays, weekends, styles, first_sheet, filename, yi,
                   month_dts, files, saves, stdout, exit>>

NextNC ==
    \/ NCSetCalendarCellSizes
    \/ NCSetMonthBorders
    \/ NCSetMonthNames

SpecNC == InitNC /\ [][NextNC]_vars

\* C13: with start_month > 1, set_month_borders merges column A into rows
\* 1..(13 - start_month) and (14 - start_month)..12, writes year into the
\* first cell of the first span and year + 1 into the first cell of the
\* second, and writes into no other cell of the spans.
C13_LabelsAtSpanOrigins ==
    (pc \in {"set_month_names", "set_day_borders"} /\ args.start_month > 1) =>
        LET t == sheets[1]
            M == args.start_month
        IN  /\ t.merges = << <<1, 0, 13 - M, 0>>, <<14 - M, 0, 12, 0>> >>
            /\ t.cells[1][0].w = 1
            /\ t.cells[1][0].value = str(args.year)
            /\ t.cells[14 - M][0].w = 1
            /\ t.cells[14 - M][0].value = str(args.year + 1)
            /\ \A r \in (2..12) \ {14 - M} : t.cells[r][0].w = 0

====
